---- MODULE Spec2Model ----
(***************************************************************************)
(* Model of src/src/db.rs: DatastoreClient and its six primitives (insert, *)
(* upsert, update, get, list, delete) over a remote document store.        *)
(*                                                                         *)
(* Rust's Option<T> is a sequence of length 0 (None) or 1 (Some(x)).       *)
(* The request and response records keep the field names of the            *)
(* google_datastore1 types the client fills in and reads.                  *)
(***************************************************************************)
EXTENDS Integers, Sequences, FiniteSets, TLC

VARIABLES
    store,      \* the remote store: path element (kind, name) -> Option<Entity>
    last,       \* the last call of a primitive: its arguments, requests, response, result
    onlyInserts, \* history: TRUE while every mutation the store committed is an insert
    inserted     \* history: the values of those inserts, while onlyInserts

vars == <<store, last, onlyInserts, inserted>>

----------------------------------------------------------------------------
(* Bounds of the model *)

MaxCount == 2

\* The inputs of the primitives: document names, and the field values of the
\* storable types
Names == {"a", "b"}
Counts == 1..MaxCount
Texts == {"x"}

----------------------------------------------------------------------------
(* Option *)

None == <<>>
Some(x) == <<x>>

----------------------------------------------------------------------------
(* Storable application types: implementations of the EntityKey trait.     *)
(*   Widget { name: String, count: i64 }   kind "Widget"                   *)
(*   Label  { name: String, text: String } kind "Widget" (shares the kind) *)
(*   Gadget { name: String, text: String } kind "Gadget"                   *)
(*   Raw    a bare String                  kind "Gadget", its own name     *)
(* A value is a record with every field; the fields a type lacks are 0/"". *)

Types == {"Widget", "Label", "Gadget", "Raw"}
Kinds == {"Widget", "Gadget"}

\* The types get, list and delete are called with: the record types
Records == {"Widget", "Label", "Gadget"}

ValuesOf(T) ==
    CASE T = "Widget" -> [ty : {"Widget"}, name : Names, count : Counts, text : {""}]
      [] T = "Label"  -> [ty : {"Label"}, name : Names, count : {0}, text : Texts]
      [] T = "Gadget" -> [ty : {"Gadget"}, name : Names, count : {0}, text : Texts]
      [] T = "Raw"    -> [ty : {"Raw"}, name : Names, count : {0}, text : {""}]

entity_kind_key(T) ==
    CASE T = "Widget" -> "Widget"
      [] T = "Label"  -> "Widget"
      [] T = "Gadget" -> "Gadget"
      [] T = "Raw"    -> "Gadget"

entity_name_key(value) == value.name

----------------------------------------------------------------------------
(* The client's Error enum and the results of the primitives *)

Ok(vals) == [tag |-> "Ok", cause |-> None, val |-> vals]
Serialization == [tag |-> "Serialization", cause |-> None, val |-> <<>>]
Deserialization == [tag |-> "Deserialization", cause |-> None, val |-> <<>>]
DatabaseResponse(e) == [tag |-> "DatabaseResponse", cause |-> Some(e), val |-> <<>>]
NoPayload == [tag |-> "NoPayload", cause |-> None, val |-> <<>>]

----------------------------------------------------------------------------
(* convert: the value codec (crate::convert) *)

IntegerValue(n) == [integer_value |-> Some(n), string_value |-> None, entity_value |-> None]
StringValue(s) == [integer_value |-> None, string_value |-> Some(s), entity_value |-> None]
EntityValue(e) == [integer_value |-> None, string_value |-> None, entity_value |-> Some(e)]

\* encode: a record becomes a Value holding an entity whose properties map
\* each field name to its property value; a bare scalar becomes a scalar Value.
to_datastore_value(value) ==
    CASE value.ty = "Widget" ->
            Some(EntityValue([key |-> None,
                              properties |-> Some([name |-> StringValue(value.name),
                                                   count |-> IntegerValue(value.count)])]))
      [] value.ty \in {"Label", "Gadget"} ->
            Some(EntityValue([key |-> None,
                              properties |-> Some([name |-> StringValue(value.name),
                                                   text |-> StringValue(value.text)])]))
      [] value.ty = "Raw" -> Some(StringValue(value.name))

HasString(p, f) == f \in DOMAIN p /\ p[f].string_value # None
HasInteger(p, f) == f \in DOMAIN p /\ p[f].integer_value # None

\* decode: every field of T must be present with the property kind T expects;
\* a bare scalar type cannot be read from an entity.
from_datastore_entity(T, entity) ==
    IF entity.properties = None THEN None
    ELSE LET p == entity.properties[1] IN
         CASE T = "Widget" ->
                IF HasString(p, "name") /\ HasInteger(p, "count")
                THEN Some([ty |-> T, name |-> p.name.string_value[1],
                           count |-> p.count.integer_value[1], text |-> ""])
                ELSE None
           [] T \in {"Label", "Gadget"} ->
                IF HasString(p, "name") /\ HasString(p, "text")
                THEN Some([ty |-> T, name |-> p.name.string_value[1],
                           count |-> 0, text |-> p.text.string_value[1]])
                ELSE None
           [] T = "Raw" -> None

----------------------------------------------------------------------------
(* The remote store behind the transport (google_datastore1::Datastore)    *)

StoreKeys == [kind : Kinds, name : Names]

\* (kind, name) of the single path element of a google_datastore1::Key
StoreKeyOf(key) ==
    [kind |-> key.path[1][1].kind[1], name |-> key.path[1][1].name[1]]

MutationFields == {"insert", "update", "upsert", "delete"}
SetFields(m) == {f \in MutationFields : m[f] # None}

Accepted(st) == [status |-> None, store |-> st]
Rejected(st, code) == [status |-> Some(code), store |-> st]

\* One mutation of a commit: insert is create-only, update is replace-only,
\* upsert is create-or-replace, delete removes and does not mind a missing key.
ApplyMutation(st, m) ==
    IF Cardinality(SetFields(m)) # 1 THEN Rejected(st, "INVALID_ARGUMENT")
    ELSE LET key == IF m.delete # None THEN m.delete
                    ELSE (m.insert \o m.update \o m.upsert)[1].key
         IN  IF key = None \/ key[1].path = None \/ Len(key[1].path[1]) # 1
             THEN Rejected(st, "INVALID_ARGUMENT")
             ELSE LET k == StoreKeyOf(key[1]) IN
                  IF k \notin StoreKeys THEN Rejected(st, "INVALID_ARGUMENT")
                  ELSE CASE m.insert # None ->
                              IF st[k] # None THEN Rejected(st, "ALREADY_EXISTS")
                              ELSE Accepted([st EXCEPT ![k] = m.insert])
                         [] m.update # None ->
                              IF st[k] = None THEN Rejected(st, "NOT_FOUND")
                              ELSE Accepted([st EXCEPT ![k] = m.update])
                         [] m.upsert # None ->
                              Accepted([st EXCEPT ![k] = m.upsert])
                         [] m.delete # None ->
                              Accepted([st EXCEPT ![k] = None])

RECURSIVE ApplyMutations(_, _)
ApplyMutations(st, muts) ==
    IF muts = <<>> THEN Accepted(st)
    ELSE LET r == ApplyMutation(st, Head(muts)) IN
         IF r.status # None THEN r ELSE ApplyMutations(r.store, Tail(muts))

\* projects.commit: all mutations of the request or none
StoreCommit(st, req) ==
    IF req.mode # Some("NON_TRANSACTIONAL") \/ req.transaction # None \/ req.mutations = None
    THEN Rejected(st, "INVALID_ARGUMENT")
    ELSE LET r == ApplyMutations(st, req.mutations[1]) IN
         IF r.status # None THEN Rejected(st, r.status[1]) ELSE r

EntityResult(e) == [entity |-> e]

\* projects.lookup: the entities found under the requested keys; no `found`
\* field when none is.
StoreLookup(st, req) ==
    LET keys == IF req.keys = None THEN <<>> ELSE req.keys[1]
        hits == SelectSeq(keys, LAMBDA key : StoreKeyOf(key) \in StoreKeys
                                             /\ st[StoreKeyOf(key)] # None)
    IN  IF hits = <<>> THEN None
        ELSE Some([i \in 1..Len(hits) |-> EntityResult(st[StoreKeyOf(hits[i])])])

\* The orders in which the store may return the documents of a kind
Orders == {o \in [1..Cardinality(Names) -> Names] : \A i, j \in DOMAIN o : o[i] = o[j] => i = j}

\* projects.runQuery with a single kind expression and nothing else: every
\* document of the kind, one page, in the order the store chooses.
StoreQuery(st, req, order) ==
    LET kind == req.query[1].kind[1][1].name[1]
        keys == [i \in DOMAIN order |-> [kind |-> kind, name |-> order[i]]]
        hits == SelectSeq(keys, LAMBDA k : st[k] # None)
    IN  [i \in 1..Len(hits) |-> EntityResult(st[hits[i]])]

----------------------------------------------------------------------------
(* The transport: one request, one response or a transport error *)

NoResponse == [status |-> None, found |-> None, batch |-> None]
TransportError(code) == [status |-> Some(code), found |-> None, batch |-> None]

CommitCall(req) == [commit |-> Some(req), lookup |-> None, run_query |-> None]
LookupCall(req) == [commit |-> None, lookup |-> Some(req), run_query |-> None]
RunQueryCall(req) == [commit |-> None, lookup |-> None, run_query |-> Some(req)]

\* What the environment may do to a call: "ok" is the store answering as
\* documented; "unavailable" a transport failure before the store acts; the
\* rest are success responses with parts the client reads as optional left out.
CommitOutcomes == {"ok", "unavailable"}
LookupOutcomes == {"ok", "unavailable", "found_empty", "no_entity"}
QueryOutcomes == {"ok", "unavailable", "no_batch", "no_results", "no_entity"}

Execute(st, call, env, order) ==
    IF env = "unavailable" THEN [resp |-> TransportError("UNAVAILABLE"), store |-> st]
    ELSE IF call.commit # None THEN
        LET r == StoreCommit(st, call.commit[1]) IN
        [resp |-> [status |-> r.status, found |-> None, batch |-> None], store |-> r.store]
    ELSE IF call.lookup # None THEN
        LET found == CASE env = "found_empty" -> Some(<<>>)
                       [] env = "no_entity" -> Some(<<EntityResult(None)>>)
                       [] OTHER -> StoreLookup(st, call.lookup[1])
        IN [resp |-> [status |-> None, found |-> found, batch |-> None], store |-> st]
    ELSE
        LET results == StoreQuery(st, call.run_query[1], order)
            batch == CASE env = "no_batch" -> None
                       [] env = "no_results" -> Some([entity_results |-> None])
                       [] env = "no_entity" ->
                            Some([entity_results |-> Some(<<EntityResult(None)>> \o results)])
                       [] OTHER -> Some([entity_results |-> Some(results)])
        IN [resp |-> [status |-> None, found |-> None, batch |-> batch], store |-> st]

----------------------------------------------------------------------------
(* DatastoreClient: the pieces of the primitives *)

\* Mutant: a value that is not map-shaped is stored as an empty property map.
Properties_OrEmpty(value) ==
    LET v == to_datastore_value(value)
        e == IF v = None THEN None ELSE v[1].entity_value
    IN  IF e = None THEN Some(<<>>) ELSE e[1].properties

\* to_datastore_value(value).and_then(entity_value).and_then(properties)
Properties(value) ==
    LET v == to_datastore_value(value)
        e == IF v = None THEN None ELSE v[1].entity_value
    IN  IF e = None THEN None ELSE e[1].properties

\* Key { path: [PathElement { kind, name, id: None }], partition_id: None }
KeyPath(kind_key, name_key) ==
    [path |-> Some(<<[kind |-> Some(kind_key), name |-> Some(name_key), id |-> None]>>),
     partition_id |-> None]

NewEntity(kind_key, name_key, properties) ==
    [properties |-> Some(properties), key |-> Some(KeyPath(kind_key, name_key))]

\* Mutant: insert fills the upsert field.
InsertMutation_AsUpsert(entity) ==
    [insert |-> None, delete |-> None, update |-> None,
     base_version |-> None, upsert |-> Some(entity)]

InsertMutation(entity) ==
    [insert |-> Some(entity), delete |-> None, update |-> None,
     base_version |-> None, upsert |-> None]

\* Mutant: upsert fills the insert field.
UpsertMutation_AsInsert(entity) ==
    [insert |-> Some(entity), delete |-> None, update |-> None,
     base_version |-> None, upsert |-> None]

UpsertMutation(entity) ==
    [insert |-> None, delete |-> None, update |-> None,
     base_version |-> None, upsert |-> Some(entity)]

\* Mutant: update fills the upsert field.
UpdateMutation_AsUpsert(entity) ==
    [insert |-> None, delete |-> None, update |-> None,
     base_version |-> None, upsert |-> Some(entity)]

UpdateMutation(entity) ==
    [insert |-> None, delete |-> None, update |-> Some(entity),
     base_version |-> None, upsert |-> None]

\* Mutant: delete leaves the delete field unset.
DeleteMutation_Unset(entity_key) ==
    [insert |-> None, delete |-> None, update |-> None,
     base_version |-> None, upsert |-> None]

DeleteMutation(entity_key) ==
    [insert |-> None, delete |-> Some(entity_key), update |-> None,
     base_version |-> None, upsert |-> None]

\* Mutant: the commit is sent in transactional mode.
CommitRequest_Transactional(mutation) ==
    [transaction |-> None, mutations |-> Some(<<mutation>>),
     mode |-> Some("TRANSACTIONAL")]

CommitRequest(mutation) ==
    [transaction |-> None, mutations |-> Some(<<mutation>>),
     mode |-> Some("NON_TRANSACTIONAL")]

\* match result { Ok(_) => Ok(()), Err(e) => Err(Error::DatabaseResponse(e)) }
CommitResult(resp) ==
    IF resp.status = None THEN Ok(<<>>) ELSE DatabaseResponse(resp.status[1])

\* Mutant: kind and name change places in the looked-up key.
LookupRequest_Swapped(kind_key, name_key) ==
    [keys |-> Some(<<KeyPath(name_key, kind_key)>>), read_options |-> None]

LookupRequest(kind_key, name_key) ==
    [keys |-> Some(<<KeyPath(kind_key, name_key)>>), read_options |-> None]

\* lookup_response.found.and_then(first).and_then(entity)
GetPayload(lookup_response) ==
    LET first == IF lookup_response.found = None THEN None
                 ELSE IF lookup_response.found[1] = <<>> THEN None
                 ELSE Some(lookup_response.found[1][1])
    IN  IF first = None THEN None ELSE first[1].entity

\* Mutant: a missing payload is reported as a decode failure.
GetResult_MissingIsDecodeError(T, resp) ==
    IF resp.status # None THEN DatabaseResponse(resp.status[1])
    ELSE LET payload == GetPayload(resp) IN
         IF payload = None THEN Deserialization
         ELSE LET value == from_datastore_entity(T, payload[1]) IN
              IF value = None THEN Deserialization ELSE Ok(<<value[1]>>)

GetResult(T, resp) ==
    IF resp.status # None THEN DatabaseResponse(resp.status[1])
    ELSE LET payload == GetPayload(resp) IN
         IF payload = None THEN NoPayload
         ELSE LET value == from_datastore_entity(T, payload[1]) IN
              IF value = None THEN Deserialization ELSE Ok(<<value[1]>>)

RunQueryRequest(kind_key) ==
    [query |-> Some([start_cursor |-> None, kind |-> Some(<<[name |-> Some(kind_key)]>>),
                     projection |-> None, distinct_on |-> None, filter |-> None,
                     limit |-> None, offset |-> None, end_cursor |-> None, order |-> None]),
     partition_id |-> None, gql_query |-> None, read_options |-> None]

\* entities.into_iter().filter_map(|x| x.entity)
RECURSIVE Entities(_)
Entities(results) ==
    IF results = <<>> THEN <<>>
    ELSE Head(results).entity \o Entities(Tail(results))

\* .filter_map(|x| convert::from_datastore_entity(x.clone()))
RECURSIVE Decoded(_, _)
Decoded(T, entities) ==
    IF entities = <<>> THEN <<>>
    ELSE from_datastore_entity(T, Head(entities)) \o Decoded(T, Tail(entities))

\* Mutant: only the first entity is decoded, as get does.
Collect_FirstOnly(T, results) ==
    LET es == Entities(results)
    IN  Decoded(T, IF es = <<>> THEN <<>> ELSE <<Head(es)>>)

\* entities.filter_map(|x| x.entity).filter_map(from_datastore_entity).collect()
Collect(T, results) == Decoded(T, Entities(results))

\* Mutant: one entity that does not decode fails the whole list.
ListResult_FailFast(T, resp) ==
    IF resp.status # None THEN DatabaseResponse(resp.status[1])
    ELSE LET results == IF resp.batch = None THEN None ELSE resp.batch[1].entity_results
         IN  IF results = None THEN NoPayload
             ELSE LET es == Entities(results[1]) IN
                  IF \E i \in DOMAIN es : from_datastore_entity(T, es[i]) = None
                  THEN Deserialization
                  ELSE Ok(Collect(T, results[1]))

ListResult(T, resp) ==
    IF resp.status # None THEN DatabaseResponse(resp.status[1])
    ELSE LET results == IF resp.batch = None THEN None ELSE resp.batch[1].entity_results
         IN  IF results = None THEN NoPayload ELSE Ok(Collect(T, results[1]))

----------------------------------------------------------------------------
(* History kept for the properties *)

\* The call that has just returned, with the store as it was before it.
Called(op, T, name_key, arg, reqs, resp, env, result) ==
    last' = [op |-> op, ty |-> T, name |-> name_key, arg |-> arg, reqs |-> reqs,
             resp |-> resp, env |-> env, result |-> result, before |-> store]

\* A mutation primitive returns: the store moves on and, when the store
\* committed the request, so does the history. `inserted` collects the values
\* of the committed inserts for as long as no other mutation has committed.
Mutated(op, arg, out) ==
    LET committed == out.resp.status = None
    IN  /\ store' = out.store
        /\ onlyInserts' = (onlyInserts /\ (committed => op = "insert"))
        /\ inserted' = IF ~onlyInserts' THEN {}
                       ELSE IF committed THEN inserted \cup {arg[1]}
                       ELSE inserted

----------------------------------------------------------------------------
(* The primitives *)

Insert ==
    \E T \in Types : \E value \in ValuesOf(T) : \E env \in CommitOutcomes :
        LET kind_key == entity_kind_key(T)
            name_key == entity_name_key(value)
            properties == Properties(value)
        IN  IF properties = None
            THEN /\ Called("insert", T, name_key, Some(value), <<>>, NoResponse, "none",
                           Serialization)
                 /\ UNCHANGED <<store, onlyInserts, inserted>>
            ELSE LET entity == NewEntity(kind_key, name_key, properties[1])
                     req == CommitCall(CommitRequest(InsertMutation(entity)))
                     out == Execute(store, req, env, <<>>)
                 IN  /\ Called("insert", T, name_key, Some(value), <<req>>, out.resp, env,
                               CommitResult(out.resp))
                     /\ Mutated("insert", Some(value), out)

Upsert ==
    \E T \in Types : \E value \in ValuesOf(T) : \E env \in CommitOutcomes :
        LET kind_key == entity_kind_key(T)
            name_key == entity_name_key(value)
            properties == Properties(value)
        IN  IF properties = None
            THEN /\ Called("upsert", T, name_key, Some(value), <<>>, NoResponse, "none",
                           Serialization)
                 /\ UNCHANGED <<store, onlyInserts, inserted>>
            ELSE LET entity == NewEntity(kind_key, name_key, properties[1])
                     req == CommitCall(CommitRequest(UpsertMutation(entity)))
                     out == Execute(store, req, env, <<>>)
                 IN  /\ Called("upsert", T, name_key, Some(value), <<req>>, out.resp, env,
                               CommitResult(out.resp))
                     /\ Mutated("upsert", Some(value), out)

Update ==
    \E T \in Types : \E value \in ValuesOf(T) : \E env \in CommitOutcomes :
        LET kind_key == entity_kind_key(T)
            name_key == entity_name_key(value)
            properties == Properties(value)
        IN  IF properties = None
            THEN /\ Called("update", T, name_key, Some(value), <<>>, NoResponse, "none",
                           Serialization)
                 /\ UNCHANGED <<store, onlyInserts, inserted>>
            ELSE LET entity == NewEntity(kind_key, name_key, properties[1])
                     req == CommitCall(CommitRequest(UpdateMutation(entity)))
                     out == Execute(store, req, env, <<>>)
                 IN  /\ Called("update", T, name_key, Some(value), <<req>>, out.resp, env,
                               CommitResult(out.resp))
                     /\ Mutated("update", Some(value), out)

Get ==
    \E T \in Records : \E name_key \in Names : \E env \in LookupOutcomes :
        LET kind_key == entity_kind_key(T)
            req == LookupCall(LookupRequest(kind_key, name_key))
            out == Execute(store, req, env, <<>>)
        IN  /\ Called("get", T, name_key, None, <<req>>, out.resp, env,
                      GetResult(T, out.resp))
            /\ UNCHANGED <<store, onlyInserts, inserted>>

List ==
    \E T \in Records : \E env \in QueryOutcomes : \E order \in Orders :
        LET kind_key == entity_kind_key(T)
            req == RunQueryCall(RunQueryRequest(kind_key))
            out == Execute(store, req, env, order)
        IN  /\ Called("list", T, "", None, <<req>>, out.resp, env,
                      ListResult(T, out.resp))
            /\ UNCHANGED <<store, onlyInserts, inserted>>

Delete ==
    \E T \in Records : \E name_key \in Names : \E env \in CommitOutcomes :
        LET kind_key == entity_kind_key(T)
            entity_key == KeyPath(kind_key, name_key)
            req == CommitCall(CommitRequest(DeleteMutation(entity_key)))
            out == Execute(store, req, env, <<>>)
        IN  /\ Called("delete", T, name_key, None, <<req>>, out.resp, env,
                      CommitResult(out.resp))
            /\ Mutated("delete", None, out)

----------------------------------------------------------------------------

Init ==
    /\ store = [k \in StoreKeys |-> None]
    /\ last = [op |-> "new", ty |-> "", name |-> "", arg |-> None, reqs |-> <<>>,
               resp |-> NoResponse, env |-> "none", result |-> Ok(<<>>),
               before |-> [k \in StoreKeys |-> None]]
    /\ onlyInserts = TRUE
    /\ inserted = {}

Next == Insert \/ Upsert \/ Update \/ Get \/ List \/ Delete

Spec == Init /\ [][Next]_vars

----------------------------------------------------------------------------
(* Vocabulary of the properties *)

Mutations == {"insert", "upsert", "update"}

\* The store key the last call addressed (not for "new" and "list")
LastKey == [kind |-> entity_kind_key(last.ty), name |-> last.name]

\* The value of the last call encodes to a map-shaped entity
MapShaped(value) ==
    LET v == to_datastore_value(value)
    IN  v # None /\ v[1].entity_value # None /\ v[1].entity_value[1].properties # None

OthersUnchanged(k) == \A o \in StoreKeys : o # k => store[o] = last.before[o]

\* The transport call returned Err: a failure on the way, or the store's
\* rejection of the request
TransportFailed == last.resp.status # None

----------------------------------------------------------------------------
(* C1 Insert-then-get *)

\* While the inserts are the only mutations committed, a get of an inserted
\* value's type and name that the store answers returns that value.
InsertedIsGot ==
    (last.op = "get" /\ last.env = "ok" /\ onlyInserts)
    => \A v \in inserted :
          (v.ty = last.ty /\ v.name = last.name) => last.result = Ok(<<v>>)

\* An insert that returned success, directly followed by a get of the same
\* type and name that the store answers: the get returns the inserted value.
InsertThenGet ==
    ( /\ last.op = "insert" /\ last.result = Ok(<<>>)
      /\ last'.op = "get" /\ last'.ty = last.ty /\ last'.name = last.name
      /\ last'.env = "ok" )
    => last'.result = Ok(<<last.arg[1]>>)

\* C1: for every value v with a map-shaped encoding whose key is not in the
\* store, if insert(v) returns success then a following get of v's type and
\* name, with no mutation of that key in between, returns a value equal to v.
C1_InsertThenGet == [][InsertedIsGot' /\ InsertThenGet]_vars

C1_Witness ==
    /\ last.op = "get" /\ last.env = "ok" /\ onlyInserts
    /\ last.result.tag = "Ok" /\ last.result.val[1] \in inserted
    /\ Cardinality(inserted) >= 2

----------------------------------------------------------------------------
(* C2 Update-without-prior-insert *)

\* An update of a map-shaped value reaches a store that holds nothing under
\* the value's key.
UpdateOfAbsent ==
    /\ last.op = "update" /\ last.reqs # <<>> /\ last.env = "ok"
    /\ last.before[LastKey] = None

\* C2 as claimed: update(v) with no document under v's key yields an error of
\* the client's NotFound kind, mapped from the store's conflict signal, never
\* success, and the store still holds no document under that key.
C2_UpdateAbsentIsNotFound ==
    UpdateOfAbsent => (last.result.tag = "NotFound" /\ store[LastKey] = None)

\* C2 amended: update(v) with no document under v's key never succeeds: it
\* returns DatabaseResponse wrapping the store's own error unchanged (the
\* client has no NotFound kind and maps nothing), and the store is as before,
\* with no document under that key.
C2_UpdateAbsentIsDatabaseResponse ==
    UpdateOfAbsent =>
        /\ TransportFailed
        /\ last.result = DatabaseResponse(last.resp.status[1])
        /\ store = last.before /\ store[LastKey] = None

C2_Witness ==
    /\ UpdateOfAbsent
    /\ last.result = DatabaseResponse("NOT_FOUND")
    /\ \E k \in StoreKeys : store[k] # None

----------------------------------------------------------------------------
(* C3 Insert on an existing key *)

InsertOfPresent ==
    /\ last.op = "insert" /\ last.reqs # <<>> /\ last.env = "ok"
    /\ last.before[LastKey] # None

\* C3 as claimed: insert(v) with a document already under v's key returns the
\* client's AlreadyExists error, mapped from the transport conflict, and
\* leaves the stored document unchanged.
C3_InsertPresentIsAlreadyExists ==
    InsertOfPresent => (last.result.tag = "AlreadyExists" /\ store = last.before)

\* C3 amended: insert(v) with a document already under v's key never succeeds
\* and never overwrites: it returns DatabaseResponse wrapping the store's own
\* error unchanged (the client has no AlreadyExists kind and maps nothing),
\* and the store, the document under that key included, is as before.
C3_InsertPresentIsDatabaseResponse ==
    InsertOfPresent =>
        /\ TransportFailed
        /\ last.result = DatabaseResponse(last.resp.status[1])
        /\ store = last.before /\ store[LastKey] = last.before[LastKey]

C3_Witness ==
    /\ InsertOfPresent
    /\ last.result = DatabaseResponse("ALREADY_EXISTS")
    /\ from_datastore_entity(last.ty, store[LastKey][1]) \notin {None, last.arg}

----------------------------------------------------------------------------
(* C4 Delete is idempotent *)

\* A delete the store answers succeeds, leaves no document under its key and
\* leaves every other key alone, whether or not the key held a document.
DeleteRemoves ==
    (last.op = "delete" /\ last.env = "ok")
    => /\ last.result = Ok(<<>>)
       /\ store[LastKey] = None
       /\ OthersUnchanged(LastKey)

\* A delete of a key with no document changes nothing at all.
DeleteOfAbsent ==
    (last.op = "delete" /\ last.env = "ok" /\ last.before[LastKey] = None)
    => (last.result = Ok(<<>>) /\ store = last.before)

\* Two deletes of the same key in a row that the store answers both succeed.
DeleteTwice ==
    ( /\ last.op = "delete" /\ last.result = Ok(<<>>)
      /\ last'.op = "delete" /\ last'.name = last.name
      /\ entity_kind_key(last'.ty) = entity_kind_key(last.ty)
      /\ last'.env = "ok" )
    => (last'.result = Ok(<<>>) /\ store' = store)

\* C4: delete of a key that does not exist returns success, two deletes of the
\* same key in a row both return success, and after either the store holds no
\* document under that key while every other key's document is unchanged.
C4_DeleteIdempotent == [][DeleteRemoves' /\ DeleteOfAbsent' /\ DeleteTwice]_vars

C4_Witness ==
    /\ last.op = "delete" /\ last.env = "ok" /\ last.before[LastKey] = None
    /\ last.result = Ok(<<>>)
    /\ \E k \in StoreKeys : k # LastKey /\ store[k] # None

----------------------------------------------------------------------------
(* C5 List completeness *)

OfType(T) == {v \in inserted : v.ty = T}
OfKind(kind) == {v \in inserted : entity_kind_key(v.ty) = kind}
Range(seq) == {seq[i] : i \in DOMAIN seq}

\* Every listed value is the decoding of a document stored under the listed
\* kind, and no document is listed twice.
ListedAreStored ==
    (last.op = "list" /\ last.env = "ok")
    => /\ last.result.tag = "Ok"
       /\ \A i \in DOMAIN last.result.val :
            LET k == [kind |-> entity_kind_key(last.ty), name |-> last.result.val[i].name]
            IN  /\ store[k] # None
                /\ from_datastore_entity(last.ty, store[k][1]) = Some(last.result.val[i])
       /\ \A i, j \in DOMAIN last.result.val :
            last.result.val[i].name = last.result.val[j].name => i = j

\* C5: after N successful inserts of values of one type T with pairwise
\* distinct names into a store holding nothing else of T's kind, a list of T
\* that the store answers returns exactly N values, the inserted ones, in some
\* order; documents of other kinds never appear in it.
C5_ListComplete ==
    /\ ListedAreStored
    /\ ( /\ last.op = "list" /\ last.env = "ok" /\ onlyInserts
         /\ OfKind(entity_kind_key(last.ty)) = OfType(last.ty) )
       => /\ last.result.tag = "Ok"
          /\ Len(last.result.val) = Cardinality(OfType(last.ty))
          /\ Range(last.result.val) = OfType(last.ty)

C5_Witness ==
    /\ last.op = "list" /\ last.env = "ok" /\ onlyInserts
    /\ OfKind(entity_kind_key(last.ty)) = OfType(last.ty)
    /\ Len(last.result.val) = 2
    /\ last.result.val[1].name = "b"
    /\ inserted # OfType(last.ty)

----------------------------------------------------------------------------
(* C6 Get of an absent document *)

\* The entity of the first result of a lookup response, if it has one
FoundEntity(resp) ==
    IF resp.found = None \/ resp.found[1] = <<>> THEN None ELSE resp.found[1][1].entity

\* A get whose response carries no document returns NoPayload; one whose
\* document does not decode into T returns Deserialization; a value is
\* returned only for a document that decodes, and is its decoding.
GetOfResponse ==
    (last.op = "get" /\ ~TransportFailed)
    => LET e == FoundEntity(last.resp) IN
       /\ e = None => last.result = NoPayload
       /\ (e # None /\ from_datastore_entity(last.ty, e[1]) = None)
            => last.result = Deserialization
       /\ last.result.tag = "Ok"
            => (e # None /\ <<last.result.val[1]>> = from_datastore_entity(last.ty, e[1]))

\* A get that the store answers, for a key with no document: NoPayload.
GetOfAbsent ==
    (last.op = "get" /\ last.env = "ok" /\ store[LastKey] = None)
    => last.result = NoPayload

\* A delete that returned success, directly followed by a get of the same
\* key that the store answers: NoPayload.
DeleteThenGet ==
    ( /\ last.op = "delete" /\ last.result = Ok(<<>>)
      /\ last'.op = "get" /\ last'.name = last.name
      /\ entity_kind_key(last'.ty) = entity_kind_key(last.ty)
      /\ last'.env = "ok" )
    => last'.result = NoPayload

\* C6: get of a type and name for which the store reports no document, also
\* after a successful insert and a successful delete of that key, returns
\* NoPayload and never a value; a found document that fails to decode yields
\* Deserialization.
C6_GetAbsent == [][GetOfResponse' /\ GetOfAbsent' /\ DeleteThenGet]_vars

C6_Witness ==
    /\ last.op = "get" /\ last.env = "ok" /\ store[LastKey] = None
    /\ last.result = NoPayload
    /\ ~onlyInserts
    /\ \E k \in StoreKeys : store[k] # None

C6_WitnessDecode ==
    /\ last.op = "get" /\ last.env = "ok" /\ store[LastKey] # None
    /\ last.result = Deserialization

----------------------------------------------------------------------------
(* C7 Encode error on a non-map root *)

\* C7: insert, upsert and update of a value whose encoding is not a
\* map-shaped entity return Serialization, issue no request, and leave the
\* store unchanged, whether or not the value's key holds a document.
C7_NonMapIsSerialization ==
    (last.op \in Mutations /\ ~MapShaped(last.arg[1]))
    => /\ last.result = Serialization
       /\ last.reqs = <<>>
       /\ store = last.before

C7_Witness ==
    /\ last.op \in Mutations /\ ~MapShaped(last.arg[1])
    /\ last.result = Serialization
    /\ store[LastKey] # None

----------------------------------------------------------------------------
(* C8 One request per primitive *)

Primitives == Mutations \cup {"delete", "get", "list"}

\* The call passed local encoding: it has no value to encode or its value is
\* map-shaped.
PassedEncoding == last.arg = None \/ MapShaped(last.arg[1])

\* The one path element (kind_of(T), name) of the last call
LastPath ==
    <<[kind |-> Some(entity_kind_key(last.ty)), name |-> Some(last.name), id |-> None]>>

\* The key a mutation record addresses: the delete key, or the key of the
\* entity of the field that is set
MutationKey(m) ==
    IF m.delete # None THEN m.delete ELSE (m.insert \o m.update \o m.upsert)[1].key

\* C8: every call of a primitive that passes local encoding issues exactly one
\* transport request and its result is drawn from that request's response;
\* for insert, upsert, update and delete the request is a non-transactional
\* commit of exactly one mutation record, in which exactly the field of the
\* primitive is set, keyed by the single-element path (kind_of(T), name).
C8_OneRequest ==
    (last.op \in Primitives /\ PassedEncoding)
    => /\ Len(last.reqs) = 1
       /\ last.op = "get" => last.reqs[1].lookup # None
       /\ last.op = "list" => last.reqs[1].run_query # None
       /\ last.op \in Mutations \cup {"delete"} =>
            /\ last.reqs[1].commit # None
            /\ LET req == last.reqs[1].commit[1] IN
               /\ req.transaction = None
               /\ req.mode = Some("NON_TRANSACTIONAL")
               /\ req.mutations # None /\ Len(req.mutations[1]) = 1
               /\ SetFields(req.mutations[1][1]) = {last.op}
               /\ MutationKey(req.mutations[1][1]) # None
               /\ MutationKey(req.mutations[1][1])[1].path = Some(LastPath)
       /\ TransportFailed => last.result = DatabaseResponse(last.resp.status[1])

C8_Witness ==
    /\ last.op = "delete" /\ Len(last.reqs) = 1
    /\ last.result = Ok(<<>>) /\ last.before[LastKey] # None
    /\ \E k \in StoreKeys : store[k] # None

----------------------------------------------------------------------------
(* C9 List failure policy *)

\* The entity results of a query response, if its batch carries them
EntityResults(resp) == IF resp.batch = None THEN None ELSE resp.batch[1].entity_results

\* Result i of the response holds an entity that decodes into T
Decodes(T, rs, i) ==
    rs[i].entity # None /\ from_datastore_entity(T, rs[i].entity[1]) # None

\* vals is rs with the results that do not decode into T left out, decoded, in
\* the order of rs
IsDecodedSubsequence(T, rs, vals) ==
    LET good == {i \in DOMAIN rs : Decodes(T, rs, i)}
        Rank(i) == Cardinality({j \in good : j <= i})
    IN  /\ Len(vals) = Cardinality(good)
        /\ \A i \in good : Some(vals[Rank(i)]) = from_datastore_entity(T, rs[i].entity[1])

\* C9: when the query response carries a batch with entity results, list
\* returns success with exactly the entities that decode into T, in response
\* order, dropping the others (never Deserialization; the empty sequence when
\* none decodes); it returns NoPayload only when the batch or its entity
\* results are absent, and DatabaseResponse only when the transport fails.
C9_ListPolicy ==
    last.op = "list" =>
        /\ last.result.tag # "Deserialization"
        /\ (last.result.tag = "DatabaseResponse") = TransportFailed
        /\ (last.result.tag = "NoPayload")
              = (~TransportFailed /\ EntityResults(last.resp) = None)
        /\ (~TransportFailed /\ EntityResults(last.resp) # None)
              => /\ last.result.tag = "Ok"
                 /\ IsDecodedSubsequence(last.ty, EntityResults(last.resp)[1],
                                         last.result.val)

C9_Witness ==
    /\ last.op = "list" /\ ~TransportFailed /\ EntityResults(last.resp) # None
    /\ Len(EntityResults(last.resp)[1]) = 3
    /\ Len(last.result.val) = 1
    /\ Decodes(last.ty, EntityResults(last.resp)[1], 3)

----------------------------------------------------------------------------
(* C10 Upsert is create-or-replace *)

\* An upsert of a map-shaped value that the store answers succeeds, leaves
\* under the value's key a document that decodes to the value, and leaves
\* every other key alone, whether or not the key held a document.
UpsertStores ==
    (last.op = "upsert" /\ MapShaped(last.arg[1]) /\ last.env = "ok")
    => /\ last.result = Ok(<<>>)
       /\ store[LastKey] # None
       /\ from_datastore_entity(last.ty, store[LastKey][1]) = last.arg
       /\ OthersUnchanged(LastKey)

\* An upsert that returned success, directly followed by a get of the same
\* type and name that the store answers: the get returns the upserted value.
UpsertThenGet ==
    ( /\ last.op = "upsert" /\ last.result = Ok(<<>>)
      /\ last'.op = "get" /\ last'.ty = last.ty /\ last'.name = last.name
      /\ last'.env = "ok" )
    => last'.result = Ok(<<last.arg[1]>>)

\* A transport failure of an upsert comes back as DatabaseResponse wrapping
\* the transport's error unchanged, and an upsert fails in no other way.
UpsertFailure ==
    (last.op = "upsert" /\ MapShaped(last.arg[1]))
    => /\ TransportFailed => last.result = DatabaseResponse(last.resp.status[1])
       /\ last.result.tag # "Ok" => (TransportFailed /\ store = last.before)

\* C10: for every value v with a map-shaped encoding, upsert(v) succeeds
\* whether or not a document exists under v's key, a following get of v's
\* type and name returns a value equal to v (the last upserted value wins),
\* documents under all other keys are unchanged, and any transport failure is
\* returned as DatabaseResponse wrapping the transport error unmodified.
C10_UpsertCreateOrReplace == [][UpsertStores' /\ UpsertFailure' /\ UpsertThenGet]_vars

C10_Witness ==
    /\ last.op = "upsert" /\ last.env = "ok" /\ last.result = Ok(<<>>)
    /\ last.before[LastKey] # None
    /\ last.before[LastKey] # store[LastKey]
    /\ \E k \in StoreKeys : k # LastKey /\ store[k] # None

====
